---- MODULE Spec2Model ----
(***************************************************************************)
(* A model of fuzzy_matching.StringLib: one private dictionary (__strlib)  *)
(* that holds the bookkeeping keys 'collections' and 'total_strings' next  *)
(* to one entry per collection label, and the operations that change and   *)
(* query it.                                                               *)
(*                                                                         *)
(* A string is a sequence of characters.  The characters are the classes   *)
(* the pre-processing tells apart: a lower-case ASCII letter, an upper-    *)
(* case ASCII letter, ASCII whitespace, accented letters that NFKD folds   *)
(* to an ASCII letter, and a character without an ASCII decomposition.     *)
(* A value that is not a string (an int used as a label or as a key) is    *)
(* written NonStr / NonStrLabel; a flag is "T", "F", "None" or "Bad" (any  *)
(* other non-bool).                                                        *)
(***************************************************************************)
EXTENDS Integers, Sequences, FiniteSets, TLC

VARIABLES
    strlib,   \* self.__strlib: key -> value
    call,     \* the last call that writes the library: operation and arguments
    ret,      \* the exception that call raised ("none": it returned)
    nops,     \* number of calls made so far
    prev,     \* the call before the last, and __strlib as it was before the last
    asked     \* the get_top call made on the library as it stands, and its outcome

vars == <<strlib, call, ret, nops, prev, asked>>

\* Number of calls in a run of the library life cycle.
MaxOps == 3
\* Number of calls in a run of additions and renames.
MaxRenOps == 4
\* Number of library mutations before the queries of a query run.
MaxAdds == 2
\* Number of add_col calls in a run over every policy.
MaxBuilds == 2

-----------------------------------------------------------------------------
(* Strings and the pre-processing steps *)

Chars == {"a", "A", " ", "a'", "A'", "EUR"}

NonStr == <<"#int">>
NonStrLabel == "#int"

IsStr(x) == \A i \in 1..Len(x) : x[i] \in Chars

IsSpace(c) == c = " "

LowerChar(c) ==
    CASE c = "A" -> "a"
      [] c = "A'" -> "a'"
      [] OTHER -> c

\* normalize("NFKD", c).encode("ascii", "ignore").decode() of one character
AsciiChar(c) ==
    CASE c = "a'" -> <<"a">>
      [] c = "A'" -> <<"A">>
      [] c = "EUR" -> <<>>
      [] OTHER -> <<c>>

RECURSIVE LStrip(_)
LStrip(s) == IF s # <<>> /\ IsSpace(Head(s)) THEN LStrip(Tail(s)) ELSE s

RECURSIVE RStrip(_)
RStrip(s) ==
    IF s # <<>> /\ IsSpace(s[Len(s)]) THEN RStrip(SubSeq(s, 1, Len(s) - 1)) ELSE s

strip(s) == RStrip(LStrip(s))

lower(s) == [i \in 1..Len(s) |-> LowerChar(s[i])]

RECURSIVE to_ascii_str(_)
to_ascii_str(s) ==
    IF s = <<>> THEN <<>> ELSE AsciiChar(Head(s)) \o to_ascii_str(Tail(s))

\* add_col, "Pre-processing", first step: pre_col after the optional strip
PreCol(item, no_strip) == IF ~no_strip THEN strip(item) ELSE item

\* add_col, "Pre-processing", second step: the reference of one pre_col item
Reference(pre, ignore_case, to_ascii) ==
    IF to_ascii
    THEN IF ignore_case THEN lower(to_ascii_str(pre)) ELSE to_ascii_str(pre)
    ELSE IF ignore_case THEN lower(pre) ELSE pre

\* get_top, "apply collection pre-processing settings to query": one pass of
\* the loop body over the query it is handed
QueryStep(query, col) ==
    LET q1 == IF col.ignore_case THEN lower(query) ELSE query
        q2 == IF col.to_ascii THEN to_ascii_str(q1) ELSE q1
    IN  IF ~col.no_strip THEN strip(q2) ELSE q2

-----------------------------------------------------------------------------
(* Values of __strlib *)

ListVal(l) == [kind |-> "list", list |-> l]
IntVal == [kind |-> "int"]

\* __init__ and clr_lib: {'collections': [], 'total_strings': 0}
EmptyLib ==
    [k \in {"collections", "total_strings"} |->
        IF k = "collections" THEN ListVal(<<>>) ELSE IntVal]

Has(lib, k) == k \in DOMAIN lib
Put(lib, k, v) == [x \in (DOMAIN lib) \cup {k} |-> IF x = k THEN v ELSE lib[x]]
Pop(lib, k) == [x \in (DOMAIN lib) \ {k} |-> lib[x]]

IsCol(lib, k) == Has(lib, k) /\ lib[k].kind = "col"

\* list.remove(x): the first occurrence goes
RECURSIVE Remove(_, _)
Remove(l, x) ==
    IF l = <<>> THEN <<>>
    ELSE IF Head(l) = x THEN Tail(l) ELSE <<Head(l)>> \o Remove(Tail(l), x)

InList(l, x) == \E i \in 1..Len(l) : l[i] = x
Range(l) == {l[i] : i \in 1..Len(l)}

Out(lib, err) == [strlib |-> lib, err |-> err]

IsFlag(f) == f \in {"T", "F"}
Flag(f) == f = "T"

-----------------------------------------------------------------------------
(* add_col *)

\* Items handed to add_col: a list (keys = the items), a dict (keys and the
\* values in insertion order) or something else (shape "other").
ListItems(l) == [shape |-> "list", keys |-> l, vals |-> <<>>]
DictItems(k, v) == [shape |-> "dict", keys |-> k, vals |-> v]
OtherItems == [shape |-> "other", keys |-> <<>>, vals |-> <<>>]

\* One pass of the loop "for i, ref in enumerate(references)": the three
\* *_by_len dicts are filled in step, so a bucket is one record of the three
\* lists, and by_len keeps the buckets in the order the dicts got their keys.
AddToBuckets(b, length, c, r, v) ==
    IF \E i \in 1..Len(b) : b[i].len = length
    THEN [i \in 1..Len(b) |->
            IF b[i].len = length
            THEN [len |-> length, col |-> Append(b[i].col, c),
                  ref |-> Append(b[i].ref, r), val |-> Append(b[i].val, v)]
            ELSE b[i]]
    ELSE Append(b, [len |-> length, col |-> <<c>>, ref |-> <<r>>, val |-> <<v>>])

\* "Create dicts with everything grouped by length": len(ref) raises
\* TypeError on a reference that is not a string, and the loop stops there.
RECURSIVE BucketLoop(_, _, _, _, _)
BucketLoop(b, pre_col, references, values, i) ==
    IF i > Len(references) THEN [by_len |-> b, err |-> "none"]
    ELSE IF ~IsStr(references[i]) THEN [by_len |-> b, err |-> "TypeError"]
    ELSE BucketLoop(
            AddToBuckets(b, Len(references[i]), pre_col[i], references[i], values[i]),
            pre_col, references, values, i + 1)

\* The body of add_col after the label is appended: self.__strlib[label] = {}
\* and everything stored in it, from the keys and the values taken from the
\* items.  stage says which keys the dict has: "values" (the flags,
\* 'collection', 'num_ref', 'values') or "by_len" (the three *_by_len dicts
\* as well).  item.strip(), normalize(...) and item.lower() raise on the
\* first key that is not a string.
Build(keys, values, ignore_case, to_ascii, no_strip) ==
    LET base == [kind |-> "col", ignore_case |-> ignore_case, to_ascii |-> to_ascii,
                 no_strip |-> no_strip, collection |-> keys, num_ref |-> Len(keys),
                 values |-> values, stage |-> "values", by_len |-> <<>>]
        allstr == \A i \in 1..Len(keys) : IsStr(keys[i])
    IN  IF ~allstr /\ ~no_strip THEN [col |-> base, err |-> "AttributeError"]
        ELSE IF ~allstr /\ to_ascii THEN [col |-> base, err |-> "TypeError"]
        ELSE IF ~allstr /\ ignore_case THEN [col |-> base, err |-> "AttributeError"]
        ELSE LET pre_col == [i \in 1..Len(keys) |-> PreCol(keys[i], no_strip)]
                 references ==
                     [i \in 1..Len(keys) |->
                        IF IsStr(pre_col[i])
                        THEN Reference(pre_col[i], ignore_case, to_ascii)
                        ELSE pre_col[i]]
                 loop == BucketLoop(<<>>, pre_col, references, values, 1)
             IN  [col |-> [base EXCEPT !.stage = "by_len", !.by_len = loop.by_len],
                  err |-> loop.err]

\* "Create and store base collection and values": a list gives '' for every
\* value, a dict its values
ValuesOf(items) ==
    IF items.shape = "list" THEN [i \in 1..Len(items.keys) |-> ""] ELSE items.vals

NotBlank(item) == IsStr(item) => strip(item) # <<>>

\* BuildCol with the blank items taken out of the list before it is stored
BuildColDropBlank(items, ignore_case, to_ascii, no_strip) ==
    Build(SelectSeq(items.keys, NotBlank), ValuesOf(items),
          ignore_case, to_ascii, no_strip)

BuildCol(items, ignore_case, to_ascii, no_strip) ==
    Build(items.keys, ValuesOf(items), ignore_case, to_ascii, no_strip)

add_col(lib, items, label, ignore_case, to_ascii, no_strip) ==
    IF label = NonStrLabel THEN Out(lib, "TypeError")
    ELSE IF ~IsFlag(ignore_case) \/ ~IsFlag(to_ascii) \/ ~IsFlag(no_strip)
    THEN Out(lib, "TypeError")
    ELSE IF items.shape \notin {"list", "dict"} THEN Out(lib, "TypeError")
    ELSE IF ~(Len(items.keys) > 1) THEN Out(lib, "Exception")
    ELSE IF items.shape = "list" /\ \E i \in 1..Len(items.keys) : ~IsStr(items.keys[i])
    THEN Out(lib, "TypeError")
    \* self.__strlib['collections'].append(label)
    ELSE IF ~Has(lib, "collections") THEN Out(lib, "KeyError")
    ELSE IF lib["collections"].kind # "list" THEN Out(lib, "AttributeError")
    ELSE LET lib1 == Put(lib, "collections",
                         ListVal(Append(lib["collections"].list, label)))
             built == BuildCol(items, Flag(ignore_case), Flag(to_ascii), Flag(no_strip))
         IN  Out(Put(lib1, label, built.col), built.err)

-----------------------------------------------------------------------------
(* del_col, ren_col, set_pre_opt, clr_lib, collections *)

del_col(lib, label) ==
    IF label = NonStrLabel THEN Out(lib, "TypeError")
    ELSE LET lib1 == Pop(lib, label)
         IN  IF ~Has(lib1, "collections") THEN Out(lib1, "KeyError")
             ELSE IF lib1["collections"].kind # "list" THEN Out(lib1, "AttributeError")
             ELSE IF ~InList(lib1["collections"].list, label)
             THEN Out(lib1, "ValueError")
             ELSE Out(Put(lib1, "collections",
                          ListVal(Remove(lib1["collections"].list, label))), "none")

\* ren_col with the pop forgotten: the collection stays under old_label too
ren_col_copy(lib, old_label, new_label) ==
    IF old_label = NonStrLabel \/ new_label = NonStrLabel THEN Out(lib, "TypeError")
    ELSE IF ~Has(lib, old_label) THEN Out(lib, "none")
    ELSE LET lib1 == Put(lib, new_label, lib[old_label])
         IN  IF ~Has(lib1, "collections") THEN Out(lib1, "none")
             ELSE IF lib1["collections"].kind # "list" THEN Out(lib1, "AttributeError")
             ELSE IF ~InList(lib1["collections"].list, old_label)
             THEN Out(lib1, "ValueError")
             ELSE Out(Put(lib1, "collections",
                          ListVal(Append(Remove(lib1["collections"].list, old_label),
                                         new_label))), "none")

\* The except clause catches KeyError only: a missing old_label (and a
\* missing 'collections' key) is printed and the call returns normally.
ren_col(lib, old_label, new_label) ==
    IF old_label = NonStrLabel \/ new_label = NonStrLabel THEN Out(lib, "TypeError")
    ELSE IF ~Has(lib, old_label) THEN Out(lib, "none")
    ELSE LET lib1 == Put(Pop(lib, old_label), new_label, lib[old_label])
         IN  IF ~Has(lib1, "collections") THEN Out(lib1, "none")
             ELSE IF lib1["collections"].kind # "list" THEN Out(lib1, "AttributeError")
             ELSE IF ~InList(lib1["collections"].list, old_label)
             THEN Out(lib1, "ValueError")
             ELSE Out(Put(lib1, "collections",
                          ListVal(Append(Remove(lib1["collections"].list, old_label),
                                         new_label))), "none")

\* d[k] = v of a dict kept as two lists: a key keeps its first position and
\* takes the last value
DictSet(d, k, v) ==
    IF \E i \in 1..Len(d.keys) : d.keys[i] = k
    THEN DictItems(d.keys,
                   [i \in 1..Len(d.keys) |-> IF d.keys[i] = k THEN v ELSE d.vals[i]])
    ELSE DictItems(Append(d.keys, k), Append(d.vals, v))

\* dict(zip(keys, vals))
RECURSIVE DictZip(_, _)
DictZip(keys, vals) ==
    IF keys = <<>> \/ vals = <<>> THEN DictItems(<<>>, <<>>)
    ELSE DictSet(DictZip(SubSeq(keys, 1, Len(keys) - 1), SubSeq(vals, 1, Len(vals) - 1)),
                 keys[Len(keys)], vals[Len(vals)])

FlagOf(b) == IF b THEN "T" ELSE "F"

set_pre_opt(lib, label, ignore_case, to_ascii, no_strip) ==
    IF ignore_case = "None" /\ to_ascii = "None" /\ no_strip = "None"
    THEN Out(lib, "none")
    ELSE IF label = NonStrLabel THEN Out(lib, "TypeError")
    \* cols = self.collections(); len(cols) == 0
    ELSE IF ~Has(lib, "collections") THEN Out(lib, "KeyError")
    ELSE IF lib["collections"].kind = "int" THEN Out(lib, "TypeError")
    ELSE IF lib["collections"].kind = "list" /\ lib["collections"].list = <<>>
    THEN Out(lib, "KeyError")
    ELSE IF ~Has(lib, label) THEN Out(lib, "KeyError")
    \* self.__strlib[label]['ignore_case'] of a list or an int
    ELSE IF lib[label].kind # "col" THEN Out(lib, "TypeError")
    ELSE IF "Bad" \in {ignore_case, to_ascii, no_strip} THEN Out(lib, "TypeError")
    ELSE LET c == lib[label]
             ic == IF ignore_case = "None" THEN c.ignore_case ELSE Flag(ignore_case)
             ta == IF to_ascii = "None" THEN c.to_ascii ELSE Flag(to_ascii)
             ns == IF no_strip = "None" THEN c.no_strip ELSE Flag(no_strip)
         IN  IF c.ignore_case = ic /\ c.to_ascii = ta /\ c.no_strip = ns
             THEN Out(lib, "none")
             ELSE LET temp_col == DictZip(c.collection, c.values)
                      d == del_col(lib, label)
                  IN  IF d.err # "none" THEN d
                      ELSE add_col(d.strlib, temp_col, label,
                                   FlagOf(ic), FlagOf(ta), FlagOf(ns))

clr_lib(lib) == Out(EmptyLib, "none")

\* collections(): self.__strlib['collections'], whatever it holds
collections(lib) ==
    IF Has(lib, "collections")
    THEN [err |-> "none", value |-> lib["collections"]]
    ELSE [err |-> "KeyError", value |-> IntVal]

\* The (pre_col, reference, value) triples of the buckets, bucket after bucket
RECURSIVE Flatten(_)
Flatten(by_len) ==
    IF by_len = <<>> THEN <<>>
    ELSE [i \in 1..Len(Head(by_len).ref) |->
             [string |-> Head(by_len).col[i], reference |-> Head(by_len).ref[i],
              value |-> Head(by_len).val[i]]]
         \o Flatten(Tail(by_len))

NoInfo == [label |-> ""]

col_info(lib, label, full) ==
    LET Raise(e) == [err |-> e, value |-> NoInfo]
    IN
    IF label = NonStrLabel THEN Raise("TypeError")
    ELSE IF ~Has(lib, "collections") THEN Raise("KeyError")
    ELSE IF lib["collections"].kind = "int" THEN Raise("TypeError")
    ELSE IF lib["collections"].kind = "list" /\ lib["collections"].list = <<>>
    THEN Raise("KeyError")
    ELSE IF ~Has(lib, label) THEN Raise("KeyError")
    ELSE IF lib[label].kind # "col" THEN Raise("TypeError")
    ELSE IF full /\ lib[label].stage # "by_len" THEN Raise("KeyError")
    ELSE [err |-> "none",
          value |-> [label |-> label,
                     ignore_case |-> lib[label].ignore_case,
                     to_ascii |-> lib[label].to_ascii,
                     no_strip |-> lib[label].no_strip,
                     num_strings |-> lib[label].num_ref,
                     collection |-> IF full THEN Flatten(lib[label].by_len) ELSE <<>>]]

RECURSIVE SumRefs(_, _)
SumRefs(lib, labels) ==
    IF labels = <<>> THEN 0 ELSE lib[Head(labels)].num_ref + SumRefs(lib, Tail(labels))

\* lib_info: per label the entry count and the flags, and the total
lib_info(lib) ==
    LET Raise(e) == [err |-> e, collections |-> <<>>, total_strings |-> 0]
    IN
    IF ~Has(lib, "collections") THEN Raise("KeyError")
    ELSE IF lib["collections"].kind = "int" THEN Raise("TypeError")
    ELSE IF lib["collections"].kind = "col" THEN Raise("KeyError")
    ELSE LET labels == lib["collections"].list
         IN  IF \E i \in 1..Len(labels) : ~Has(lib, labels[i]) THEN Raise("KeyError")
             ELSE IF \E i \in 1..Len(labels) : lib[labels[i]].kind # "col"
             THEN Raise("TypeError")
             ELSE [err |-> "none", collections |-> labels,
                   info |-> [l \in Range(labels) |->
                               [num_strings |-> lib[l].num_ref,
                                ignore_case |-> lib[l].ignore_case,
                                to_ascii |-> lib[l].to_ascii,
                                no_strip |-> lib[l].no_strip]],
                   total_strings |-> SumRefs(lib, labels)]

-----------------------------------------------------------------------------
(* get_top *)

Max(a, b) == IF a >= b THEN a ELSE b
Abs(n) == IF n < 0 THEN 0 - n ELSE n

\* Length of a longest common subsequence
RECURSIVE LCS(_, _)
LCS(s, t) ==
    IF s = <<>> \/ t = <<>> THEN 0
    ELSE IF Head(s) = Head(t) THEN 1 + LCS(Tail(s), Tail(t))
    ELSE Max(LCS(Tail(s), t), LCS(s, Tail(t)))

\* fuzz.ratio: the normalized Indel similarity 100 * 2 * LCS / (len(s) + len(t)),
\* 100 for two empty strings; kept exact as an integer in units of 1/120
ratio(s, t) ==
    IF Len(s) + Len(t) = 0 THEN 12000
    ELSE (24000 * LCS(s, t)) \div (Len(s) + Len(t))

\* list.sort(key=score, reverse=True) and the order of process.extract:
\* by score, highest first, equal scores in the order they came
RECURSIVE InsertByScore(_, _)
InsertByScore(sorted, x) ==
    IF sorted = <<>> THEN <<x>>
    ELSE IF Head(sorted).score >= x.score
         THEN <<Head(sorted)>> \o InsertByScore(Tail(sorted), x)
         ELSE <<x>> \o sorted

RECURSIVE SortByScore(_)
SortByScore(l) ==
    IF l = <<>> THEN <<>>
    ELSE InsertByScore(SortByScore(SubSeq(l, 1, Len(l) - 1)), l[Len(l)])

\* l[:top], top = 0 standing for None
Limit(l, top) == IF top = 0 \/ top >= Len(l) THEN l ELSE SubSeq(l, 1, top)

\* process.extract(query, ref_list, scorer=fuzz.ratio, limit=top):
\* (choice, score, index) of the best `top` choices
extract(query, ref_list, top) ==
    Limit(SortByScore([i \in 1..Len(ref_list) |->
                          [choice |-> ref_list[i], score |-> ratio(query, ref_list[i]),
                           index |-> i]]),
          top)

\* "do matching per word length": the loop over the buckets of one collection
RECURSIVE BucketScan(_, _, _, _, _, _, _, _, _)
BucketScan(by_len, i, label, query, top, look_around, lmin, lmax, acc) ==
    IF i > Len(by_len) THEN acc
    ELSE LET b == by_len[i]
             skip == \/ b.len < lmin
                     \/ lmax # 0 /\ b.len > lmax
                     \/ look_around > -1 /\ Abs(b.len - Len(query)) > look_around
             ratios == extract(query, b.ref, top)
             found == [j \in 1..Len(ratios) |->
                         [string |-> b.col[ratios[j].index], collection |-> label,
                          reference |-> ratios[j].choice, value |-> b.val[ratios[j].index],
                          score |-> ratios[j].score]]
         IN  BucketScan(by_len, i + 1, label, query, top, look_around, lmin, lmax,
                        IF skip
                        THEN [acc EXCEPT !.skipped = @ + Len(b.ref)]
                        ELSE [acc EXCEPT !.temp_results = @ \o found])

\* "do matching for each argumented collection": acc carries the locals
\* query, total, skipped and temp_results from one collection to the next;
\* used lists the query each collection was matched with.
RECURSIVE CollectionLoop(_, _, _, _, _, _, _, _)
CollectionLoop(lib, cols, i, top, look_around, lmin, lmax, acc) ==
    IF i > Len(cols) \/ acc.err # "none" THEN acc
    ELSE LET label == cols[i]
         IN  IF ~Has(lib, label) THEN [acc EXCEPT !.err = "KeyError"]
             ELSE IF lib[label].kind # "col" THEN [acc EXCEPT !.err = "TypeError"]
             ELSE LET c == lib[label]
                      query == QueryStep(acc.query, c)
                      acc1 == [acc EXCEPT !.query = query,
                                          !.used = Append(@, query),
                                          !.total = @ + c.num_ref]
                  IN  IF c.stage # "by_len" THEN [acc1 EXCEPT !.err = "KeyError"]
                      ELSE CollectionLoop(lib, cols, i + 1, top, look_around, lmin, lmax,
                              BucketScan(c.by_len, 1, label, query, top, look_around,
                                         lmin, lmax, acc1))

NoScope == [given |-> FALSE, list |-> <<>>]
Scope(l) == [given |-> TRUE, list |-> l]

NoResult == [null |-> TRUE]

\* Gives [err, value, used]: value is NoResult (None) or the results dict,
\* used is what the local variable query held for each collection in turn.
get_top(lib, query, scope, top, look_around, lmin, lmax) ==
    LET Raise(e) == [err |-> e, value |-> NoResult, used |-> <<>>]
    IN
    IF query = NonStr THEN Raise("AttributeError")
    ELSE IF strip(query) = <<>> THEN [err |-> "none", value |-> NoResult, used |-> <<>>]
    ELSE IF scope.given /\ scope.list # <<>>
            /\ \E i \in 1..Len(scope.list) :
                  /\ \A j \in 1..(i - 1) : Has(lib, scope.list[j])
                  /\ scope.list[i] = NonStrLabel
    THEN Raise("TypeError")
    ELSE IF scope.given /\ scope.list # <<>>
            /\ \E i \in 1..Len(scope.list) : ~Has(lib, scope.list[i])
    THEN Raise("KeyError")
    ELSE IF ~(scope.given /\ scope.list # <<>>) /\ ~Has(lib, "collections")
    THEN Raise("KeyError")
    ELSE IF top < 0 \/ look_around < -1 \/ lmin < 1 \/ lmax < 0 THEN Raise("ValueError")
    ELSE LET cols == IF scope.given /\ scope.list # <<>>
                     THEN ListVal(scope.list)
                     ELSE lib["collections"]
         IN  \* iterating an int raises; iterating a collection's dict gives
             \* its keys ('ignore_case', ...), none of them a key of __strlib
             IF cols.kind = "int" THEN Raise("TypeError")
             ELSE IF cols.kind = "col" THEN Raise("KeyError")
             ELSE LET acc == CollectionLoop(lib, cols.list, 1, top, look_around, lmin, lmax,
                                [err |-> "none", query |-> query, used |-> <<>>,
                                 total |-> 0, skipped |-> 0, temp_results |-> <<>>])
                  IN  IF acc.err # "none" THEN Raise(acc.err)
                      ELSE [err |-> "none",
                            value |-> [null |-> FALSE,
                                       query |-> query,
                                       skipped |-> acc.skipped,
                                       total |-> acc.total,
                                       results |-> Limit(SortByScore(acc.temp_results), top),
                                       collections |-> cols.list,
                                       tested |-> acc.total - acc.skipped],
                            used |-> acc.used]

-----------------------------------------------------------------------------
(* The calls the model makes *)

sa == <<"a">>
sA == <<"A">>
sBlank == <<" ">>
sPad == <<" ", "a">>
sAcc == <<"a'">>
sTrail == <<"A", " ">>
sEur == <<"EUR", "a">>
sLong == <<"a", "A">>

Default == [ignore_case |-> "T", to_ascii |-> "T", no_strip |-> "F"]
Raw == [ignore_case |-> "F", to_ascii |-> "F", no_strip |-> "T"]
BadFlags == [ignore_case |-> "T", to_ascii |-> "Bad", no_strip |-> "F"]

Padded == ListItems(<<sPad, sBlank>>)
Twice == ListItems(<<sA, sA>>)
TwiceMore == ListItems(<<sA, sA, sAcc>>)
Valued == DictItems(<<sa, sTrail>>, <<"v1", "v2">>)
IntKey == DictItems(<<sa, NonStr>>, <<"v1", "v2">>)
Single == ListItems(<<sa>>)
IntItem == ListItems(<<sa, NonStr>>)

AddArg(items, label, pol) == [items |-> items, label |-> label, pol |-> pol]

AddMenu ==
    {AddArg(Padded, "a", Default), AddArg(Padded, "a", Raw),
     AddArg(Twice, "a", Default), AddArg(TwiceMore, "a", Default),
     AddArg(Valued, "a", Default), AddArg(IntKey, "a", Default),
     AddArg(IntKey, "a", Raw),
     AddArg(Padded, "b", Default), AddArg(Valued, "b", Raw),
     AddArg(Padded, "collections", Default),
     AddArg(Single, "a", Default), AddArg(IntItem, "a", Default),
     AddArg(OtherItems, "a", Default), AddArg(Padded, NonStrLabel, Default),
     AddArg(Padded, "a", BadFlags)}

DelMenu == {"a", "b", "collections", "total_strings", NonStrLabel}

RenMenu ==
    {<<"a", "b">>, <<"b", "a">>, <<"a", "collections">>, <<"collections", "a">>,
     <<NonStrLabel, "a">>}

SetArg(label, ic, ta, ns) ==
    [label |-> label, ignore_case |-> ic, to_ascii |-> ta, no_strip |-> ns]

SetMenu ==
    {SetArg("a", "None", "None", "None"), SetArg("a", "F", "None", "None"),
     SetArg("a", "None", "F", "T"), SetArg("b", "None", "None", "T"),
     SetArg("a", "Bad", "None", "None"), SetArg("collections", "F", "None", "None")}

NoCall == [op |-> "none"]

Init ==
    /\ strlib = EmptyLib
    /\ call = NoCall
    /\ ret = "none"
    /\ nops = 0
    /\ prev = [strlib |-> EmptyLib, call |-> NoCall]
    /\ asked = NoCall

\* A call that writes the library: c is the call, out what the method did
Did(c, out) ==
    /\ strlib' = out.strlib
    /\ call' = c
    /\ ret' = out.err
    /\ nops' = nops + 1
    /\ prev' = [strlib |-> strlib, call |-> call]
    /\ asked' = NoCall

AddCol(max, a) ==
    /\ nops < max
    /\ Did([op |-> "add_col", items |-> a.items, label |-> a.label, pol |-> a.pol],
           add_col(strlib, a.items, a.label,
                   a.pol.ignore_case, a.pol.to_ascii, a.pol.no_strip))

DelCol(max, label) ==
    /\ nops < max
    /\ Did([op |-> "del_col", label |-> label], del_col(strlib, label))

RenCol(max, old_label, new_label) ==
    /\ nops < max
    /\ Did([op |-> "ren_col", old_label |-> old_label, new_label |-> new_label],
           ren_col(strlib, old_label, new_label))

SetPreOpt(max, a) ==
    /\ nops < max
    /\ Did([op |-> "set_pre_opt", label |-> a.label, ignore_case |-> a.ignore_case,
            to_ascii |-> a.to_ascii, no_strip |-> a.no_strip],
           set_pre_opt(strlib, a.label, a.ignore_case, a.to_ascii, a.no_strip))

ClrLib(max) ==
    /\ nops < max
    /\ Did([op |-> "clr_lib"], clr_lib(strlib))

Next ==
    \/ \E a \in AddMenu : AddCol(MaxOps, a)
    \/ \E l \in DelMenu : DelCol(MaxOps, l)
    \/ \E r \in RenMenu : RenCol(MaxOps, r[1], r[2])
    \/ \E a \in SetMenu : SetPreOpt(MaxOps, a)
    \/ ClrLib(MaxOps)

Spec == Init /\ [][Next]_vars

\* get_top reads the library and leaves it as it is.  A second query on the
\* same library gives a state the first could have given, so one is enough.
GetTop(q) ==
    /\ asked = NoCall
    /\ LET out == get_top(strlib, q.query, q.scope, q.top, q.look_around, q.lmin, q.lmax)
       IN  asked' = [op |-> "get_top", query |-> q.query, scope |-> q.scope,
                     top |-> q.top, look_around |-> q.look_around,
                     lmin |-> q.lmin, lmax |-> q.lmax,
                     err |-> out.err, value |-> out.value, used |-> out.used]
    /\ UNCHANGED <<strlib, call, ret, nops, prev>>

Words == ListItems(<<sa, sA, sLong>>)

QAddMenu ==
    {AddArg(Words, "a", Default), AddArg(Words, "b", Raw),
     AddArg(Valued, "a", Raw), AddArg(Padded, "b", Default),
     AddArg(IntKey, "b", Raw), AddArg(IntKey, "a", Default)}

QueryArg(query, scope, top, look_around, lmin, lmax) ==
    [query |-> query, scope |-> scope, top |-> top, look_around |-> look_around,
     lmin |-> lmin, lmax |-> lmax]

Queries == {sA, sEur, <<"a", "A", " ">>}
Scopes == {NoScope, Scope(<<"a">>), Scope(<<"a", "b">>), Scope(<<"b", "a">>),
           Scope(<<"b", "b">>)}

QueryMenu ==
    {QueryArg(q, sc, top, la, lmin, lmax) :
        q \in Queries, sc \in Scopes, top \in 0..2, la \in -1..1,
        lmin \in 1..2, lmax \in 0..2}
    \cup
    {QueryArg(sBlank, NoScope, 1, -1, 1, 0), QueryArg(NonStr, NoScope, 1, -1, 1, 0),
     QueryArg(sA, Scope(<<"a", "zz">>), 1, -1, 1, 0),
     QueryArg(sA, Scope(<<NonStrLabel>>), 1, -1, 1, 0),
     QueryArg(sA, Scope(<<>>), 1, -1, 1, 0),
     QueryArg(sA, NoScope, -1, -1, 1, 0), QueryArg(sA, NoScope, 1, -2, 1, 0),
     QueryArg(sA, NoScope, 1, -1, 0, 0), QueryArg(sA, NoScope, 1, -1, 1, -1)}

NextQuery ==
    \/ \E a \in QAddMenu : AddCol(MaxAdds, a)
    \/ \E q \in QueryMenu : GetTop(q)

SpecQuery == Init /\ [][NextQuery]_vars

\* Runs of add_col under each of the eight policies
Policies ==
    {[ignore_case |-> ic, to_ascii |-> ta, no_strip |-> ns] :
        ic \in {"T", "F"}, ta \in {"T", "F"}, ns \in {"T", "F"}}

Blanks == ListItems(<< <<>>, sBlank, <<"EUR">> >>)
Mixed == DictItems(<<sPad, sTrail, sEur, <<"A'", " ">> >>, <<"v1", "v2", "v1", "v2">>)

BuildMenu ==
    {AddArg(items, "a", pol) :
        items \in {Padded, Blanks, Mixed, Words, TwiceMore, IntKey}, pol \in Policies}
    \cup {AddArg(Padded, "b", Default), AddArg(Single, "a", Default)}

NextBuild == \E a \in BuildMenu : AddCol(MaxBuilds, a)

SpecBuild == Init /\ [][NextBuild]_vars

\* Runs of additions, renames and deletions over three ordinary labels
RenAddMenu ==
    {AddArg(Padded, "a", Default), AddArg(Valued, "b", Raw),
     AddArg(TwiceMore, "c", Default), AddArg(IntKey, "a", Raw)}

RenPairs ==
    {<<"a", "b">>, <<"b", "a">>, <<"a", "c">>, <<"c", "a">>, <<"b", "c">>,
     <<"c", "b">>, <<"a", "collections">>, <<"collections", "a">>}

NextRen ==
    \/ \E a \in RenAddMenu : AddCol(MaxRenOps, a)
    \/ \E r \in RenPairs : RenCol(MaxRenOps, r[1], r[2])
    \/ DelCol(MaxRenOps, "a")

SpecRen == Init /\ [][NextRen]_vars

-----------------------------------------------------------------------------
(* What the claims speak of *)

\* The labels under which a collection is stored
Cols(lib) == {k \in DOMAIN lib : lib[k].kind = "col"}

\* What a caller can see of the library: collections() and every stored
\* collection
Visible(lib) == [order |-> collections(lib), cols |-> [k \in Cols(lib) |-> lib[k]]]

NoDuplicates(l) == \A i, j \in 1..Len(l) : l[i] = l[j] => i = j

\* C1: after any sequence of add_col, del_col, ren_col, set_pre_opt and
\* clr_lib calls, collections() is a list without duplicates whose labels are
\* exactly the labels a collection is stored under.
C1_OrderIsKeySet ==
    LET c == collections(strlib)
    IN  /\ c.err = "none"
        /\ c.value.kind = "list"
        /\ NoDuplicates(c.value.list)
        /\ Range(c.value.list) = Cols(strlib)

\* The library as it was when the last call was made
Before == prev.strlib

\* C2: add_col with a label a collection is already stored under fails, and
\* the stored collections and collections() are as before.
C2_DuplicateLabelFails ==
    (call.op = "add_col" /\ call.label \in Cols(Before))
        => (ret # "none" /\ Visible(strlib) = Visible(Before))

\* C3: an add_col that fails leaves the library exactly as it was.
C3_FailedAddChangesNothing ==
    (call.op = "add_col" /\ ret # "none") => strlib = Before

\* C4: del_col of a label no collection is stored under fails, and
\* collections() and the stored collections are as before.
C4_DeleteAbsentFails ==
    (call.op = "del_col" /\ call.label \notin Cols(Before))
        => (ret # "none" /\ Visible(strlib) = Visible(Before))

\* C5: ren_col fails when no collection is stored under old, and when one is
\* stored under new; the caller gets an error and the library is unchanged.
C5_RenameFails ==
    (/\ call.op = "ren_col"
     /\ \/ call.old_label \notin Cols(Before)
        \/ call.new_label \in Cols(Before))
        => (ret # "none" /\ Visible(strlib) = Visible(Before))

\* C6: with a collection stored under a and none under b, ren_col(a, b)
\* followed by ren_col(b, a) leaves under a the collection that was there
\* (buckets, policy, entry count) and every other collection as it was.
\* Unprimed, call is the first rename and Before the library it was made on;
\* primed, call is the rename back.
C6_RenameRoundTrip ==
    [][(/\ call.op = "ren_col"
        /\ call'.op = "ren_col"
        /\ call'.old_label = call.new_label
        /\ call'.new_label = call.old_label
        /\ call.old_label # call.new_label
        /\ call.old_label \in Cols(Before)
        /\ call.new_label \notin Cols(Before))
          => (/\ Cols(strlib') = Cols(Before)
              /\ \A k \in Cols(Before) : strlib'[k] = Before[k])]_vars

\* Both renames were made and returned, and the collection is back under a.
C6_Witness ==
    /\ call.op = "ren_col" /\ prev.call.op = "ren_col"
    /\ call.old_label = prev.call.new_label
    /\ call.new_label = prev.call.old_label
    /\ call.old_label # call.new_label
    /\ ret = "none"
    /\ call.old_label \in Cols(Before)
    /\ call.new_label \notin Cols(Before)
    /\ call.new_label \in Cols(strlib)
    /\ call.old_label \notin Cols(strlib)
    /\ strlib[call.new_label].by_len # <<>>
    /\ Cardinality(Cols(strlib)) > 1

\* A collection add_col built to the end from strings
WellBuilt(c) ==
    /\ c.kind = "col" /\ c.stage = "by_len"
    /\ \A i \in 1..Len(c.collection) : IsStr(c.collection[i])

\* The items a stored collection was built from
Supplied(c) ==
    IF \A i \in 1..Len(c.values) : c.values[i] = ""
    THEN ListItems(c.collection)
    ELSE DictItems(c.collection, c.values)

\* The buckets hold exactly the items with a given normalized length
BucketedBy(c) ==
    \A n \in {b.len : b \in Range(c.by_len)} \cup
             {Len(Reference(PreCol(c.collection[i], c.no_strip), c.ignore_case,
                            c.to_ascii)) : i \in 1..Len(c.collection)} :
        LET idx == {i \in 1..Len(c.collection) :
                      Len(Reference(PreCol(c.collection[i], c.no_strip),
                                    c.ignore_case, c.to_ascii)) = n}
            held == {b \in Range(c.by_len) : b.len = n}
        IN  /\ Cardinality(held) = 1
            /\ \A b \in held : Len(b.ref) = Cardinality(idx)

\* C7: set_pre_opt with a policy other than the current one on a stored
\* collection gives the state of del_col followed by add_col of the supplied
\* items under the new policy: the collection is still stored, with every
\* original string and value it had (same entry count), each entry in the
\* bucket of its length as normalized under the new policy.
C7_ReconfigureIsRebuild ==
    (/\ call.op = "set_pre_opt"
     /\ call.label \in Cols(Before)
     /\ WellBuilt(Before[call.label])
     /\ "Bad" \notin {call.ignore_case, call.to_ascii, call.no_strip}
     /\ \/ call.ignore_case \notin {"None", FlagOf(Before[call.label].ignore_case)}
        \/ call.to_ascii \notin {"None", FlagOf(Before[call.label].to_ascii)}
        \/ call.no_strip \notin {"None", FlagOf(Before[call.label].no_strip)})
        => LET old == Before[call.label]
               ic == IF call.ignore_case = "None" THEN FlagOf(old.ignore_case)
                     ELSE call.ignore_case
               ta == IF call.to_ascii = "None" THEN FlagOf(old.to_ascii)
                     ELSE call.to_ascii
               ns == IF call.no_strip = "None" THEN FlagOf(old.no_strip)
                     ELSE call.no_strip
           IN  /\ strlib = add_col(del_col(Before, call.label).strlib, Supplied(old),
                                   call.label, ic, ta, ns).strlib
               /\ call.label \in Cols(strlib)
               /\ strlib[call.label].collection = old.collection
               /\ strlib[call.label].values = old.values
               /\ strlib[call.label].num_ref = old.num_ref
               /\ strlib[call.label].ignore_case = Flag(ic)
               /\ strlib[call.label].to_ascii = Flag(ta)
               /\ strlib[call.label].no_strip = Flag(ns)
               /\ BucketedBy(strlib[call.label])

\* The items of the last add_col whose normalized form is empty
EmptyForms ==
    {i \in 1..Len(call.items.keys) :
        Reference(PreCol(call.items.keys[i], Flag(call.pol.no_strip)),
                  Flag(call.pol.ignore_case), Flag(call.pol.to_ascii)) = <<>>}

\* The entries col_info(label, full=True) lists with an empty reference
ListedEmpty ==
    LET listed == col_info(strlib, call.label, TRUE).value.collection
    IN  {i \in 1..Len(listed) : listed[i].reference = <<>>}

\* C8 as claimed: add_col with stripping enabled drops every item whose
\* normalized form is empty: it is in no bucket and not in the entry count.
C8_EmptyFormsDropped ==
    (call.op = "add_col" /\ ret = "none" /\ call.pol.no_strip = "F")
        => /\ ListedEmpty = {}
           /\ col_info(strlib, call.label, FALSE).value.num_strings
                 = Len(call.items.keys) - Cardinality(EmptyForms)

\* C8 as the code has it: add_col drops nothing.  An item whose normalized
\* form is empty is stored in the bucket of length 0 and is counted in the
\* entry count, whether no_strip is false or true.
C8_EmptyFormsKept ==
    (call.op = "add_col" /\ ret = "none")
        => LET info == col_info(strlib, call.label, TRUE)
           IN  /\ info.err = "none"
               /\ info.value.num_strings = Len(call.items.keys)
               /\ Len(info.value.collection) = Len(call.items.keys)
               /\ Cardinality(ListedEmpty) = Cardinality(EmptyForms)
               /\ \A b \in Range(strlib[call.label].by_len) :
                     (b.len = 0) = (\E j \in 1..Len(b.ref) : b.ref[j] = <<>>)
               /\ BucketedBy(strlib[call.label])

\* An add_col with stripping enabled stored an item with an empty normalized
\* form.
C8_Witness ==
    /\ call.op = "add_col" /\ ret = "none" /\ call.pol.no_strip = "F"
    /\ EmptyForms # {}
    /\ \E b \in Range(strlib[call.label].by_len) : b.len = 0 /\ Len(b.ref) > 0

-----------------------------------------------------------------------------
(* get_top *)

\* The last call was a get_top that gave a result
Answered == asked.op = "get_top" /\ asked.err = "none" /\ ~asked.value.null

\* The query normalized under the policy of one collection alone
OwnQuery(label) == QueryStep(asked.query, strlib[label])

\* C9: the query matched against each collection of the scope is the
\* caller's query normalized under that collection's own policy, whatever
\* collections came before it.
C9_QueryPerCollection ==
    Answered =>
        \A i \in 1..Len(asked.value.collections) :
            asked.used[i] = OwnQuery(asked.value.collections[i])

\* The buckets of the queried collections, as <<position in scope, bucket>>
Places ==
    UNION {{<<i, j>> : j \in 1..Len(strlib[asked.value.collections[i]].by_len)} :
              i \in 1..Len(asked.value.collections)}

BucketAt(p) == strlib[asked.value.collections[p[1]]].by_len[p[2]]
BucketSize(p) == Len(BucketAt(p).ref)

RECURSIVE SumSizes(_)
SumSizes(S) ==
    IF S = {} THEN 0
    ELSE LET p == CHOOSE x \in S : TRUE IN BucketSize(p) + SumSizes(S \ {p})

RuledOut(label, length) ==
    \/ length < asked.lmin
    \/ asked.lmax # 0 /\ length > asked.lmax
    \/ asked.look_around >= 0
          /\ Abs(length - Len(OwnQuery(label))) > asked.look_around

SkippedPlaces == {p \in Places : RuledOut(asked.value.collections[p[1]], BucketAt(p).len)}

EntryCount(i) == col_info(strlib, asked.value.collections[i], FALSE).value.num_strings

RECURSIVE SumCounts(_)
SumCounts(S) ==
    IF S = {} THEN 0
    ELSE LET i == CHOOSE x \in S : TRUE IN EntryCount(i) + SumCounts(S \ {i})

\* C10: in a result, total is the sum of the entry counts of the queried
\* collections, skipped the summed size of the buckets ruled out by lmin,
\* lmax and look_around around the collection's own normalized query length,
\* no entry of such a bucket is in results, and skipped + tested = total with
\* tested the number of entries in the buckets that were scored.
C10_Statistics ==
    Answered =>
        LET r == asked.value
        IN  /\ r.total = SumCounts(1..Len(r.collections))
            /\ r.skipped = SumSizes(SkippedPlaces)
            /\ \A k \in 1..Len(r.results) :
                  ~RuledOut(r.results[k].collection, Len(r.results[k].reference))
            /\ r.skipped + r.tested = r.total
            /\ r.tested = SumSizes(Places \ SkippedPlaces)

\* The buckets the call scored: those its three skip rules let through,
\* measured against the query as it stood when the collection was reached
Scored ==
    {p \in Places :
        LET length == BucketAt(p).len
        IN  ~(\/ length < asked.lmin
              \/ asked.lmax # 0 /\ length > asked.lmax
              \/ asked.look_around >= 0
                    /\ Abs(length - Len(asked.used[p[1]])) > asked.look_around)}

\* The entries of the scored buckets, as <<position in scope, bucket, index>>
Candidates == UNION {{<<p[1], p[2], k>> : k \in 1..BucketSize(p)} : p \in Scored}

\* The result tuple a candidate gives
ResultOf(e) ==
    LET b == BucketAt(<<e[1], e[2]>>)
    IN  [string |-> b.col[e[3]], collection |-> asked.value.collections[e[1]],
         reference |-> b.ref[e[3]], value |-> b.val[e[3]],
         score |-> ratio(asked.used[e[1]], b.ref[e[3]])]

NonIncreasing(results) ==
    \A k \in 1..(Len(results) - 1) : results[k].score >= results[k + 1].score

\* C11: in a result, results is sorted by score, highest first; with
\* top = k > 0 it holds at most k elements; with top = 0 it holds exactly
\* tested elements, one for each entry of each bucket that was not skipped.
C11_ResultsShape ==
    Answered =>
        LET r == asked.value
        IN  /\ NonIncreasing(r.results)
            /\ asked.top > 0 => Len(r.results) <= asked.top
            /\ asked.top = 0 =>
                  /\ Len(r.results) = r.tested
                  /\ \A x \in Range(r.results) \cup {ResultOf(e) : e \in Candidates} :
                        Cardinality({k \in 1..Len(r.results) : r.results[k] = x})
                            = Cardinality({e \in Candidates : ResultOf(e) = x})

\* Collection order, then bucket order, then insertion order within the bucket
Earlier(e, f) ==
    \/ e[1] < f[1]
    \/ e[1] = f[1] /\ e[2] < f[2]
    \/ e[1] = f[1] /\ e[2] = f[2] /\ e[3] < f[3]

\* Higher score first, equal scores in the order above
Ahead(e, f) ==
    \/ ResultOf(e).score > ResultOf(f).score
    \/ ResultOf(e).score = ResultOf(f).score /\ Earlier(e, f)

Rank(e) == 1 + Cardinality({f \in Candidates : Ahead(f, e)})

\* The candidates in that ranking
Ranked ==
    [i \in 1..Cardinality(Candidates) |->
        ResultOf(CHOOSE e \in Candidates : Rank(e) = i)]

\* The results of the same query with top = 0
Unbounded ==
    get_top(strlib, asked.query, asked.scope, 0,
            asked.look_around, asked.lmin, asked.lmax).value.results

\* C12: the results of a query with top = k > 0 are the first min(k, tested)
\* elements of the results of the same query with top = 0, in the same
\* order, equal scores being ordered there by collection, then bucket, then
\* insertion within the bucket.
C12_BoundedSelection ==
    (Answered /\ asked.top > 0) =>
        LET r == asked.value
            n == IF asked.top < r.tested THEN asked.top ELSE r.tested
        IN  /\ Unbounded = Ranked
            /\ Len(r.results) = n
            /\ Len(Unbounded) >= n
            /\ r.results = SubSeq(Unbounded, 1, n)

====
